---- MODULE Spec2Model ----
(***************************************************************************)
(* A model of the otlp-metrics recorder: the lock-free accumulators of     *)
(* src/src/metric.rs (CounterValue, GaugeValue, HistogramValue), the       *)
(* registry of src/src/otlp_recorder.rs (OtlpRecorder) and the document    *)
(* built by src/src/json.rs.                                               *)
(*                                                                         *)
(* Threads call the operations of the program.  Every access to an atomic  *)
(* word, every read of the clock and every acquisition of a mutex is a     *)
(* step of its own, so the interleavings of the model are those of the     *)
(* code.  A u64 is modelled modulo U64Range, a scaled-down word.  An f64   *)
(* is modelled by a scaled-down binary floating-point number: F64Mantissa  *)
(* significant bits, the smallest positive number scaled to 1 (so the      *)
(* finite numbers are integers), everything of magnitude 2^F64MaxExp or    *)
(* more being an infinity, and NaN; results are rounded to nearest, ties   *)
(* to even, as IEEE 754 arithmetic rounds them.  The AtomicU64 slot of a   *)
(* gauge or of a histogram sum holds such a number (its bit pattern).      *)
(***************************************************************************)
EXTENDS Integers, Sequences, FiniteSets, Bags, TLC

(***************************************************************************)
(* Bounds of the model.                                                    *)
(***************************************************************************)
\* the clock reads 1 to MaxClock nanoseconds after the epoch, or a time before
\* the epoch
MaxClock == 2
\* calls the threads make, all together
MaxCalls == 3
\* number of values of the scaled-down unsigned word (2^64 in the code)
U64Range == 16
\* significant bits of the scaled-down f64 (53 in the code): the integers up
\* to 2^F64Mantissa are exact, above it every second, fourth, ... is a number
F64Mantissa == 3
\* the finite numbers of the scaled-down f64 are below 2^F64MaxExp (2^1024 in
\* the code)
F64MaxExp == 6

RECURSIVE Pow2(_)
Pow2(n) == IF n = 0 THEN 1 ELSE 2 * Pow2(n - 1)

\* f64::INFINITY, f64::NEG_INFINITY: above and below every finite number
Inf == Pow2(F64MaxExp)
NegInf == 0 - Inf
\* f64::NAN: no number; it stands outside the line, and the comparisons and
\* the arithmetic below treat it apart
NaN == 2 * Inf
\* the integers that are exact: 2^53 in the code
F64Exact == Pow2(F64Mantissa)

Threads == {"t1", "t2"}

\* arguments of Counter.increment and Counter.absolute; the last delta is
\* u64::MAX
Deltas == {1, 2, U64Range - 1}
Absolutes == {1, 3}
\* arguments of Gauge.increment, Gauge.decrement and Gauge.set; an infinite
\* delta, and a value above which an increment of 1 is lost in rounding
GaugeDeltas == {1, 2, Inf}
GaugeSets == {0, 5, F64Exact}
\* values recorded into a histogram; NaN is among them
Observations == {1, 3, 4, F64Exact, NaN}
\* bound lists handed to HistogramValue::from_bounds
BoundsInputs == {<<>>, <<2>>, <<1, 3>>, <<3, 1>>, <<2, 2>>}

\* A string that the code takes apart (a label value) is the sequence of its
\* characters.
\* the identities (metrics::Key) the threads register
KeyA == [name |-> "a", labels |-> <<>>]
KeyALabels ==
    [name |-> "a", labels |-> <<[key |-> "label1", value |-> <<"v">>],
                                [key |-> "buckets", value |-> <<"", "1", ",", " ", "\t", "3", " ">>]>>]
KeyB == [name |-> "b", labels |-> <<[key |-> "buckets", value |-> <<"1", ",", "x">>]>>]
KeyNaN == [name |-> "b", labels |-> <<[key |-> "buckets", value |-> <<"n", "a", "n">>]>>]
\* the identities each register operation is called with
Keys == [Counter |-> {KeyA},
         Gauge |-> {KeyB},
         Histogram |-> {KeyA, KeyALabels, KeyB, KeyNaN}]
\* the declarations (name, unit, description) the threads make
Declarations == {
    [key |-> "a", unit |-> <<"Bytes">>, description |-> "bytes of a"],
    [key |-> "a", unit |-> <<>>, description |-> "a again"] }
\* the arguments of the updates made through the handles of the recorder
RecorderUpdates == [increment |-> {1}, absolute |-> {2}, gauge |-> {1},
                    set |-> {5, Inf}, record |-> {3}]
\* the windows handed to to_json, in nanoseconds (Option<Duration>): none, one
\* nanosecond, and as many nanoseconds as the unsigned word has values
Periods == {<<>>, <<1>>, <<U64Range>>}

VARIABLES
    clock,              \* the last reading of the wall clock, in nanoseconds
    heap,               \* the accumulators behind the Arcs, by address
    metrics,            \* OtlpRecorder.metrics: Vec<(Key, MetricData)>
    descriptions,       \* OtlpRecorder.descriptions: Vec<MetricDescription>
    metrics_lock,       \* the Mutex around metrics: its holder, its poison flag
    descriptions_lock,  \* the Mutex around descriptions
    pc,                 \* where each thread is in the call it is making
    frame,              \* the locals of the call each thread is making
    handle,             \* the handle each thread holds (Counter, Gauge, Histogram)
    ret,                \* what the last call of each thread returned
    calls,              \* number of calls each thread has made
    log                 \* the accumulator updates called so far (a bag)

vars == <<clock, heap, metrics, descriptions, metrics_lock, descriptions_lock,
          pc, frame, handle, ret, calls, log>>

registry == <<metrics, descriptions, metrics_lock, descriptions_lock>>

(***************************************************************************)
(* Values.                                                                 *)
(***************************************************************************)
\* the number of binary digits of a natural number
RECURSIVE BitLen(_)
BitLen(a) == IF a = 0 THEN 0 ELSE 1 + BitLen(a \div 2)

\* the f64 nearest to the real number n / den (round to nearest, ties to
\* even): numbers of more than F64Mantissa bits lose their low bits, a
\* magnitude of 2^F64MaxExp or more after rounding is an infinity
f64_round(n, den) ==
    LET a == IF n < 0 THEN 0 - n ELSE n
        bits == BitLen(a \div den)
        q == den * (IF bits > F64Mantissa THEN Pow2(bits - F64Mantissa) ELSE 1)
        d == a \div q
        rem == a % q
        m == IF 2 * rem > q \/ (2 * rem = q /\ d % 2 = 1) THEN d + 1 ELSE d
        r == m * (q \div den) IN
    IF r >= Inf THEN (IF n < 0 THEN NegInf ELSE Inf)
    ELSE IF n < 0 THEN 0 - r ELSE r

\* Option<T>
None == <<>>
Some(v) == <<v>>

NoThread == "none"
NoKey == [name |-> "", labels |-> <<>>]
NoHandle == [kind |-> "None", arc |-> 0]
NoMetric == [start_time |-> 0, description |-> "", unit |-> None,
             metric_type |-> NoHandle]
NoFrame == [op |-> "", arc |-> 0, arg |-> 0, now |-> 0, curr |-> 0, todo |-> <<>>,
            kind |-> "None", key |-> NoKey, period |-> None, i |-> 0,
            keep |-> <<>>, metric |-> NoMetric, loads |-> <<>>, nodes |-> <<>>]
NoReturn == [tag |-> "none"]
Unit == [tag |-> "unit"]
Panic(msg) == [tag |-> "panic", message |-> msg]

\* Mutex::default()
Unlocked == [holder |-> NoThread, poisoned |-> FALSE]

\* CounterValue::default()
CounterValue == [value |-> 0, time |-> 0]
\* GaugeValue::default()
GaugeValue == [value |-> 0, time |-> 0]
\* HistogramValue::default()
HistogramValue == [sum |-> 0, count |-> 0, time |-> 0,
                   explicit_bounds |-> <<>>, bucket_count |-> <<>>]

\* as many bucket counters as bounds: no bucket above the last bound
from_bounds_without_overflow_bucket(bounds) ==
    IF bounds # <<>>
    THEN [HistogramValue EXCEPT
            !.explicit_bounds = bounds,
            !.bucket_count = [i \in 1..Len(bounds) |-> 0]]
    ELSE HistogramValue

\* HistogramValue::from_bounds: one counter per bound and one more, all zero
from_bounds(bounds) ==
    IF bounds # <<>>
    THEN [HistogramValue EXCEPT
            !.explicit_bounds = bounds,
            !.bucket_count = Append([i \in 1..Len(bounds) |-> 0], 0)]
    ELSE HistogramValue

\* a reading of the wall clock that lies before UNIX_EPOCH
BeforeEpoch == 0 - 1

\* what SystemTime::now() may read: the wall clock can be set, forward and
\* back, between two readings, so a reading does not depend on the last one
ClockReadings == {BeforeEpoch} \cup 1..MaxClock

\* `duration_since(UNIX_EPOCH)` is an Err for a time before the epoch, which
\* `.expect("Time went backwards")` turns into a panic
duration_since_fails(now) == now = BeforeEpoch

\* time::current_time: the reading `now` of the clock, as a u64
current_time(now) == now % U64Range

(***************************************************************************)
(* Atomic read-modify-write operations on an AtomicU64.                    *)
(***************************************************************************)
\* a mutant: the sum is stored without the old value (a lost update)
fetch_add_lost(old, value) == value

\* AtomicU64::fetch_add: wrapping addition
fetch_add(old, value) == (old + value) % U64Range

\* a mutant: the new value is stored whether or not it is larger
fetch_max_store(old, value) == value

\* AtomicU64::fetch_max
fetch_max(old, value) == IF value > old THEN value ELSE old

(***************************************************************************)
(* f64 arithmetic.                                                         *)
(***************************************************************************)
\* input + value: NaN when an operand is NaN or the operands are the two
\* infinities, an infinity when one operand is, else the sum rounded
f64_add(input, value) ==
    IF input = NaN \/ value = NaN THEN NaN
    ELSE IF input \in {Inf, NegInf}
    THEN (IF value \in {Inf, NegInf} /\ value # input THEN NaN ELSE input)
    ELSE IF value \in {Inf, NegInf} THEN value
    ELSE f64_round(input + value, 1)

\* input - value: NaN when an operand is NaN or the operands are the same
\* infinity, an infinity when one operand is, else the difference rounded
f64_sub(input, value) ==
    IF input = NaN \/ value = NaN THEN NaN
    ELSE IF input \in {Inf, NegInf}
    THEN (IF value = input THEN NaN ELSE input)
    ELSE IF value \in {Inf, NegInf} THEN 0 - value
    ELSE f64_round(input - value, 1)

\* the comparisons of f64 (PartialOrd): false when an operand is NaN
f64_le(a, b) == a # NaN /\ b # NaN /\ a <= b
f64_gt(a, b) == a # NaN /\ b # NaN /\ a > b

(***************************************************************************)
(* Calls and returns.                                                      *)
(***************************************************************************)
\* The threads are alike, so the first is taken to be the one that makes the
\* most calls; the second makes one call, which runs against any of the
\* first's.
CallBudget(t) == IF t = "t1" THEN MaxCalls ELSE 1

CanCall(t) ==
    /\ pc[t] = "idle"
    /\ calls["t1"] + calls["t2"] < MaxCalls
    /\ calls[t] < CallBudget(t)

Logged(arc, op, arg) == SetToBag({[arc |-> arc, op |-> op, arg |-> arg]})

\* the frame of an update of the accumulator behind handle[t]
UpdateFrame(t, op, arg) ==
    [NoFrame EXCEPT !.op = op, !.arc = handle[t].arc, !.arg = arg,
                    !.kind = handle[t].kind]

\* the thread unwinds out of its call and makes no other
Panics(t, msg) ==
    /\ pc' = [pc EXCEPT ![t] = "panicked"]
    /\ frame' = [frame EXCEPT ![t] = NoFrame]
    /\ ret' = [ret EXCEPT ![t] = Panic(msg)]

\* `self.time.swap(current_time(), ..)`, first half: the argument is
\* evaluated; current_time panics when the clock reads a time before the epoch
time_now(t) ==
    /\ pc[t] = "time_now"
    /\ \E now \in ClockReadings :
         /\ clock' = now
         /\ IF duration_since_fails(now)
            THEN Panics(t, "Time went backwards")
            ELSE /\ frame' = [frame EXCEPT ![t].now = current_time(now)]
                 /\ pc' = [pc EXCEPT ![t] = "time_swap"]
                 /\ UNCHANGED ret
    /\ UNCHANGED <<heap, registry, handle, calls, log>>

\* `self.time.swap(current_time(), ..)`, second half: the swap; the call returns
time_swap(t) ==
    /\ pc[t] = "time_swap"
    /\ heap' = [heap EXCEPT ![frame[t].arc].time = frame[t].now]
    /\ pc' = [pc EXCEPT ![t] = "idle"]
    /\ frame' = [frame EXCEPT ![t] = NoFrame]
    /\ ret' = [ret EXCEPT ![t] = Unit]
    /\ UNCHANGED <<clock, registry, handle, calls, log>>

(***************************************************************************)
(* CounterValue (impl CounterFn).                                          *)
(***************************************************************************)
\* increment: `self.value.fetch_add(value, ..)`
CounterValue_increment(t, value) ==
    /\ CanCall(t)
    /\ handle[t].kind = "Counter"
    /\ heap' = [heap EXCEPT ![handle[t].arc].value = fetch_add(@, value)]
    /\ frame' = [frame EXCEPT ![t] = UpdateFrame(t, "increment", value)]
    /\ log' = log (+) Logged(handle[t].arc, "increment", value)
    /\ pc' = [pc EXCEPT ![t] = "time_now"]
    /\ calls' = [calls EXCEPT ![t] = @ + 1]
    /\ UNCHANGED <<clock, registry, handle, ret>>

\* absolute: `self.value.fetch_max(value, ..)`
CounterValue_absolute(t, value) ==
    /\ CanCall(t)
    /\ handle[t].kind = "Counter"
    /\ heap' = [heap EXCEPT ![handle[t].arc].value = fetch_max(@, value)]
    /\ frame' = [frame EXCEPT ![t] = UpdateFrame(t, "absolute", value)]
    /\ log' = log (+) Logged(handle[t].arc, "absolute", value)
    /\ pc' = [pc EXCEPT ![t] = "time_now"]
    /\ calls' = [calls EXCEPT ![t] = @ + 1]
    /\ UNCHANGED <<clock, registry, handle, ret>>

(***************************************************************************)
(* GaugeValue (impl GaugeFn).                                              *)
(***************************************************************************)
\* increment, decrement: fetch_update loads the word ...
GaugeValue_load(t, op, value) ==
    /\ CanCall(t)
    /\ handle[t].kind = "Gauge"
    /\ frame' = [frame EXCEPT ![t] =
                   [UpdateFrame(t, op, value) EXCEPT !.curr = heap[handle[t].arc].value]]
    /\ log' = log (+) Logged(handle[t].arc, op, value)
    /\ pc' = [pc EXCEPT ![t] = "gauge_cas"]
    /\ calls' = [calls EXCEPT ![t] = @ + 1]
    /\ UNCHANGED <<clock, heap, registry, handle, ret>>

GaugeValue_increment(t, value) == GaugeValue_load(t, "increment", value)

GaugeValue_decrement(t, value) == GaugeValue_load(t, "decrement", value)

\* a mutant: the new value is stored without comparing the word with `curr`
cas_succeeds_always(word, curr) == TRUE

\* compare_exchange_weak succeeds when the word still holds `curr`
cas_succeeds(word, curr) == word = curr

\* the closure of fetch_update in increment and in decrement
gauge_output(op, input, value) ==
    IF op = "increment" THEN f64_add(input, value) ELSE f64_sub(input, value)

\* ... and tries compare_exchange_weak(curr, f(curr)) until it succeeds; a
\* failure hands back the word's value, with which the closure runs again
GaugeValue_fetch_update(t) ==
    /\ pc[t] = "gauge_cas"
    /\ LET word == heap[frame[t].arc].value IN
       IF cas_succeeds(word, frame[t].curr)
       THEN /\ heap' = [heap EXCEPT ![frame[t].arc].value =
                          gauge_output(frame[t].op, frame[t].curr, frame[t].arg)]
            /\ pc' = [pc EXCEPT ![t] = "time_now"]
            /\ UNCHANGED frame
       ELSE /\ frame' = [frame EXCEPT ![t].curr = word]
            /\ UNCHANGED <<heap, pc>>
    /\ UNCHANGED <<clock, registry, handle, ret, calls, log>>

\* set: `self.value.swap(value.to_bits(), ..)`
GaugeValue_set(t, value) ==
    /\ CanCall(t)
    /\ handle[t].kind = "Gauge"
    /\ heap' = [heap EXCEPT ![handle[t].arc].value = value]
    /\ frame' = [frame EXCEPT ![t] = UpdateFrame(t, "set", value)]
    /\ log' = log (+) Logged(handle[t].arc, "set", value)
    /\ pc' = [pc EXCEPT ![t] = "time_now"]
    /\ calls' = [calls EXCEPT ![t] = @ + 1]
    /\ UNCHANGED <<clock, registry, handle, ret>>

(***************************************************************************)
(* HistogramValue (impl HistogramFn).                                      *)
(***************************************************************************)
\* the loop of record over the bounds after the first, from the i-th on: the
\* bucket of every bound with prev_bound < value <= bound, then the last
\* bucket when value > the last bound; no test holds for NaN
RECURSIVE scan_bounds(_, _, _)
scan_bounds(bounds, value, i) ==
    IF i <= Len(bounds)
    THEN (IF f64_gt(value, bounds[i - 1]) /\ f64_le(value, bounds[i])
          THEN <<i>> ELSE <<>>)
             \o scan_bounds(bounds, value, i + 1)
    ELSE (IF f64_gt(value, bounds[i - 1]) THEN <<i>> ELSE <<>>)

\* the buckets record increments for `value`, in the order of its fetch_adds
buckets_to_increment(bounds, value) ==
    IF bounds # <<>>
    THEN (IF f64_le(value, bounds[1]) THEN <<1>> ELSE <<>>)
             \o scan_bounds(bounds, value, 2)
    ELSE <<>>

\* record: fetch_update loads the sum ...
HistogramValue_record(t, value) ==
    /\ CanCall(t)
    /\ handle[t].kind = "Histogram"
    /\ frame' = [frame EXCEPT ![t] =
                   [UpdateFrame(t, "record", value) EXCEPT
                      !.curr = heap[handle[t].arc].sum]]
    /\ log' = log (+) Logged(handle[t].arc, "record", value)
    /\ pc' = [pc EXCEPT ![t] = "record_cas"]
    /\ calls' = [calls EXCEPT ![t] = @ + 1]
    /\ UNCHANGED <<clock, heap, registry, handle, ret>>

\* ... and tries compare_exchange_weak(curr, curr + value) until it succeeds;
\* then the bounds are scanned, which touches no shared word
HistogramValue_fetch_update(t) ==
    /\ pc[t] = "record_cas"
    /\ LET h == heap[frame[t].arc]
           todo == buckets_to_increment(h.explicit_bounds, frame[t].arg) IN
       IF cas_succeeds(h.sum, frame[t].curr)
       THEN /\ heap' = [heap EXCEPT ![frame[t].arc].sum =
                          f64_add(frame[t].curr, frame[t].arg)]
            /\ frame' = [frame EXCEPT ![t].todo = todo]
            /\ pc' = [pc EXCEPT ![t] =
                        IF todo # <<>> THEN "record_bucket" ELSE "record_count"]
       ELSE /\ frame' = [frame EXCEPT ![t].curr = h.sum]
            /\ UNCHANGED <<heap, pc>>
    /\ UNCHANGED <<clock, registry, handle, ret, calls, log>>

\* `bucket.fetch_add(1, ..)` of the next bucket the scan selected
HistogramValue_bucket(t) ==
    /\ pc[t] = "record_bucket"
    /\ LET b == Head(frame[t].todo) IN
       heap' = [heap EXCEPT ![frame[t].arc].bucket_count[b] = fetch_add(@, 1)]
    /\ frame' = [frame EXCEPT ![t].todo = Tail(@)]
    /\ pc' = [pc EXCEPT ![t] =
                IF Tail(frame[t].todo) # <<>> THEN "record_bucket" ELSE "record_count"]
    /\ UNCHANGED <<clock, registry, handle, ret, calls, log>>

\* `self.count.fetch_add(1, ..)`
HistogramValue_count(t) ==
    /\ pc[t] = "record_count"
    /\ heap' = [heap EXCEPT ![frame[t].arc].count = fetch_add(@, 1)]
    /\ pc' = [pc EXCEPT ![t] = "time_now"]
    /\ UNCHANGED <<clock, registry, frame, handle, ret, calls, log>>

(***************************************************************************)
(* The accumulators on their own, as the tests of metric.rs use them: one  *)
(* fresh accumulator, shared by the threads.                               *)
(***************************************************************************)
InitThreads(h) ==
    /\ clock = 1
    /\ metrics = <<>>
    /\ descriptions = <<>>
    /\ metrics_lock = Unlocked
    /\ descriptions_lock = Unlocked
    /\ pc = [t \in Threads |-> "idle"]
    /\ frame = [t \in Threads |-> NoFrame]
    /\ handle = [t \in Threads |-> h]
    /\ ret = [t \in Threads |-> NoReturn]
    /\ calls = [t \in Threads |-> 0]
    /\ log = EmptyBag

InitCounter ==
    /\ heap = <<CounterValue>>
    /\ InitThreads([kind |-> "Counter", arc |-> 1])

NextCounter ==
    \E t \in Threads :
         \/ \E value \in Deltas : CounterValue_increment(t, value)
         \/ \E value \in Absolutes : CounterValue_absolute(t, value)
         \/ time_now(t)
         \/ time_swap(t)

SpecCounter == InitCounter /\ [][NextCounter]_vars

\* The counter with a wall clock that is never set back: no reading is
\* before the last one (nor, then, before the epoch).
NextCounterMonotone == NextCounter /\ clock' >= clock

SpecCounterMonotone == InitCounter /\ [][NextCounterMonotone]_vars

InitGauge ==
    /\ heap = <<GaugeValue>>
    /\ InitThreads([kind |-> "Gauge", arc |-> 1])

NextGauge ==
    \E t \in Threads :
         \/ \E value \in GaugeDeltas : GaugeValue_increment(t, value)
         \/ \E value \in GaugeDeltas : GaugeValue_decrement(t, value)
         \/ GaugeValue_fetch_update(t)
         \/ \E value \in GaugeSets : GaugeValue_set(t, value)
         \/ time_now(t)
         \/ time_swap(t)

SpecGauge == InitGauge /\ [][NextGauge]_vars

InitHistogram ==
    /\ \E bounds \in BoundsInputs : heap = <<from_bounds(bounds)>>
    /\ InitThreads([kind |-> "Histogram", arc |-> 1])

NextHistogram ==
    \E t \in Threads :
         \/ \E value \in Observations : HistogramValue_record(t, value)
         \/ HistogramValue_fetch_update(t)
         \/ HistogramValue_bucket(t)
         \/ HistogramValue_count(t)
         \/ time_now(t)
         \/ time_swap(t)

SpecHistogram == InitHistogram /\ [][NextHistogram]_vars

\* The gauge or the histogram on its own, with a scheduler that lets every
\* thread that is inside a call run again: the steps of a call after its
\* first are weakly fair for each thread. A compare_exchange_weak that fails
\* although the word holds `curr` retries with the same `curr`, a step that
\* changes nothing; fairness says that this does not go on forever.
InitUpdates ==
    \/ InitGauge
    \/ /\ heap = <<from_bounds(<<1, 3>>)>>
       /\ InitThreads([kind |-> "Histogram", arc |-> 1])

NextUpdates == NextGauge \/ NextHistogram

InCall(t) ==
    \/ GaugeValue_fetch_update(t)
    \/ HistogramValue_fetch_update(t)
    \/ HistogramValue_bucket(t)
    \/ HistogramValue_count(t)
    \/ time_now(t)
    \/ time_swap(t)

SpecUpdatesFair ==
    InitUpdates /\ [][NextUpdates]_vars /\ \A t \in Threads : WF_vars(InCall(t))

(***************************************************************************)
(* The "buckets" label of a histogram (register_histogram).                *)
(***************************************************************************)
DigitChars == <<"0", "1", "2", "3", "4", "5", "6", "7", "8", "9">>
IsDigit(c) == \E i \in 1..Len(DigitChars) : DigitChars[i] = c
DigitValue(c) == (CHOOSE i \in 1..Len(DigitChars) : DigitChars[i] = c) - 1

Ok(v) == [ok |-> TRUE, value |-> v]
Err == [ok |-> FALSE, value |-> 0]

\* str::split(','): the pieces between the separators; one more than there
\* are separators, so the empty string gives one empty piece
RECURSIVE split_from(_, _, _)
split_from(s, sep, piece) ==
    IF s = <<>> THEN <<piece>>
    ELSE IF Head(s) = sep THEN <<piece>> \o split_from(Tail(s), sep, <<>>)
    ELSE split_from(Tail(s), sep, Append(piece, Head(s)))

split(s, sep) == split_from(s, sep, <<>>)

\* char::is_whitespace, for the characters a string of the model can hold:
\* the blank, the tab, the line feed, the form feed, the carriage return, and
\* written as the characters themselves the vertical tab (U+000B), the next
\* line (U+0085), the no-break space (U+00A0) and the ogham space mark
\* (U+1680); the characters with the property White_Space from U+2000 on
\* cannot be written in a string here
WhiteSpace == {" ", "\t", "\n", "\f", "\r", "", "", " ", " "}

\* str::trim: without the leading and the trailing white space
RECURSIVE trim_start(_)
trim_start(s) ==
    IF s # <<>> /\ Head(s) \in WhiteSpace THEN trim_start(Tail(s)) ELSE s

RECURSIVE trim_end(_)
trim_end(s) ==
    IF s # <<>> /\ s[Len(s)] \in WhiteSpace
    THEN trim_end(SubSeq(s, 1, Len(s) - 1)) ELSE s

trim(s) == trim_end(trim_start(s))

\* the natural number a string of decimal digits writes, exactly (no number
\* for the empty string: acc)
RECURSIVE digits_value(_, _)
digits_value(s, acc) ==
    IF s = <<>> THEN acc ELSE digits_value(Tail(s), 10 * acc + DigitValue(Head(s)))

RECURSIVE Pow10(_)
Pow10(n) == IF n = 0 THEN 1 ELSE 10 * Pow10(n - 1)

AllDigits(s) == \A i \in 1..Len(s) : IsDigit(s[i])

\* the place of the first character of s that is in `chars`; 0 without one
IndexOf(s, chars) ==
    IF \E i \in 1..Len(s) : s[i] \in chars
    THEN CHOOSE i \in 1..Len(s) : s[i] \in chars /\ \A j \in 1..i - 1 : s[j] \notin chars
    ELSE 0

\* the lower-case letter of an upper-case ASCII letter
LowerCase ==
    [A |-> "a", B |-> "b", C |-> "c", D |-> "d", E |-> "e", F |-> "f", G |-> "g",
     H |-> "h", I |-> "i", J |-> "j", K |-> "k", L |-> "l", M |-> "m", N |-> "n",
     O |-> "o", P |-> "p", Q |-> "q", R |-> "r", S |-> "s", T |-> "t", U |-> "u",
     V |-> "v", W |-> "w", X |-> "x", Y |-> "y", Z |-> "z"]
to_ascii_lowercase(s) ==
    [i \in 1..Len(s) |-> IF s[i] \in DOMAIN LowerCase THEN LowerCase[s[i]] ELSE s[i]]

\* Number of the grammar of f64's FromStr:
\* (Digit+ | Digit+ '.' Digit* | Digit* '.' Digit+) ('e' Sign? Digit+)?,
\* the decimal number it writes rounded to the nearest f64
parse_number(negative, s) ==
    LET e == IndexOf(s, {"e", "E"})
        mantissa == IF e = 0 THEN s ELSE SubSeq(s, 1, e - 1)
        exponent == IF e = 0 THEN <<>> ELSE SubSeq(s, e + 1, Len(s))
        exp_signed == exponent # <<>> /\ Head(exponent) \in {"-", "+"}
        exp_digits == IF exp_signed THEN Tail(exponent) ELSE exponent
        point == IndexOf(mantissa, {"."})
        int == IF point = 0 THEN mantissa ELSE SubSeq(mantissa, 1, point - 1)
        frac == IF point = 0 THEN <<>>
                ELSE SubSeq(mantissa, point + 1, Len(mantissa))
        exp_value == IF exp_signed /\ Head(exponent) = "-"
                     THEN 0 - digits_value(exp_digits, 0)
                     ELSE digits_value(exp_digits, 0)
        scale == exp_value - Len(frac)
        digits == digits_value(int \o frac, 0)
        sign == IF negative THEN 0 - 1 ELSE 1 IN
    IF /\ AllDigits(int) /\ AllDigits(frac) /\ int \o frac # <<>>
       /\ e # 0 => (exp_digits # <<>> /\ AllDigits(exp_digits))
    THEN Ok(IF scale >= 0 THEN f64_round(sign * digits * Pow10(scale), 1)
            ELSE f64_round(sign * digits, Pow10(0 - scale)))
    ELSE Err

\* str::parse::<f64>: Sign? ('inf' | 'infinity' | 'nan' | Number), the words
\* in either case; an error for every other string (the empty string and a
\* string with white space among them)
parse(s) ==
    LET signed == s # <<>> /\ Head(s) \in {"-", "+"}
        negative == signed /\ Head(s) = "-"
        body == IF signed THEN Tail(s) ELSE s
        word == to_ascii_lowercase(body) IN
    IF word \in {<<"i", "n", "f">>, <<"i", "n", "f", "i", "n", "i", "t", "y">>}
    THEN Ok(IF negative THEN NegInf ELSE Inf)
    ELSE IF word = <<"n", "a", "n">> THEN Ok(NaN)
    ELSE parse_number(negative, body)

\* key.labels().find_map(|l| (l.key() == "buckets").then_some(l.value()))
RECURSIVE find_buckets(_)
find_buckets(labels) ==
    IF labels = <<>> THEN None
    ELSE IF Head(labels).key = "buckets" THEN Some(Head(labels).value)
    ELSE find_buckets(Tail(labels))

\* the bounds register_histogram reads from the key: every piece of the
\* "buckets" label parsed, an error (the panic "Invalid value for bucket
\* provided") when one does not parse; no bounds without the label
parse_bounds(key) ==
    LET buckets == find_buckets(key.labels) IN
    IF buckets = None THEN Ok(<<>>)
    ELSE LET pieces == split(buckets[1], ",")
             parsed == [i \in 1..Len(pieces) |-> parse(trim(pieces[i]))] IN
         IF \A i \in 1..Len(parsed) : parsed[i].ok
         THEN Ok([i \in 1..Len(parsed) |-> parsed[i].value])
         ELSE Err

\* parse_bounds of each identity a histogram is registered with
BoundsOfKey == [key \in Keys.Histogram |-> parse_bounds(key)]

(***************************************************************************)
(* Mutexes (std::sync::Mutex): lock() waits until the mutex is free and    *)
(* fails when it is poisoned, which `.expect(..)` turns into a panic; a    *)
(* guard dropped by a panicking thread poisons the mutex.                  *)
(***************************************************************************)
Free(m) == m.holder = NoThread
Held(m, t) == [m EXCEPT !.holder = t]
Released(m) == [m EXCEPT !.holder = NoThread]
Poisoned(m) == [holder |-> NoThread, poisoned |-> TRUE]

(***************************************************************************)
(* OtlpRecorder: registration (impl Recorder).                             *)
(***************************************************************************)
\* the first entry of metrics with this name: `.iter().find(|(k, _)| k.name()
\* == key.name())`; 0 when there is none
find_metric(key) ==
    IF \E i \in 1..Len(metrics) : metrics[i].key.name = key.name
    THEN CHOOSE i \in 1..Len(metrics) :
           /\ metrics[i].key.name = key.name
           /\ \A j \in 1..i - 1 : metrics[j].key.name # key.name
    ELSE 0

\* return_existing_metric!: `$self.metrics.lock().expect("metrics lock")`
register_lock(t, kind) ==
    /\ CanCall(t)
    /\ Free(metrics_lock)
    /\ calls' = [calls EXCEPT ![t] = @ + 1]
    /\ \E key \in Keys[kind] :
         IF metrics_lock.poisoned
         THEN /\ Panics(t, "metrics lock")
              /\ UNCHANGED metrics_lock
         ELSE /\ metrics_lock' = Held(metrics_lock, t)
              /\ pc' = [pc EXCEPT ![t] = "register_find"]
              /\ frame' = [frame EXCEPT ![t] =
                             [NoFrame EXCEPT !.op = "register", !.kind = kind, !.key = key]]
              /\ UNCHANGED ret
    /\ UNCHANGED <<clock, heap, metrics, descriptions, descriptions_lock, handle, log>>

register_counter(t) == register_lock(t, "Counter")

register_gauge(t) == register_lock(t, "Gauge")

register_histogram(t) == register_lock(t, "Histogram")

\* return_existing_metric!: the entry of that name is looked for, under the
\* lock; its accumulator is returned when it has the kind asked for, and the
\* closure panics, the guard alive, when it has another
return_existing_metric(t) ==
    /\ pc[t] = "register_find"
    /\ LET i == find_metric(frame[t].key) IN
       IF i = 0
       THEN /\ metrics_lock' = Released(metrics_lock)
            /\ pc' = [pc EXCEPT ![t] = "register_new"]
            /\ UNCHANGED <<frame, ret, handle>>
       ELSE IF metrics[i].data.metric_type.kind = frame[t].kind
       THEN /\ metrics_lock' = Released(metrics_lock)
            /\ handle' = [handle EXCEPT ![t] = metrics[i].data.metric_type]
            /\ ret' = [ret EXCEPT ![t] =
                         [tag |-> "handle", handle |-> metrics[i].data.metric_type]]
            /\ pc' = [pc EXCEPT ![t] = "idle"]
            /\ frame' = [frame EXCEPT ![t] = NoFrame]
       ELSE /\ metrics_lock' = Poisoned(metrics_lock)
            /\ Panics(t, "Unexpected metric type")
            /\ UNCHANGED handle
    /\ UNCHANGED <<clock, heap, metrics, descriptions, descriptions_lock, calls, log>>

\* the accumulator a register call creates: $Value::default(), or for a
\* histogram HistogramValue::from_bounds(bounds)
new_value(kind, bounds) ==
    CASE kind = "Counter" -> CounterValue
      [] kind = "Gauge" -> GaugeValue
      [] kind = "Histogram" -> from_bounds(bounds)

\* MetricData::basic
basic(metric_type, now) ==
    [start_time |-> current_time(now), description |-> "", unit |-> None,
     metric_type |-> metric_type]

\* register_*: the bounds of a histogram are parsed (a panic when they do
\* not parse), the accumulator is allocated, MetricData::basic reads the clock
\* (a panic when it reads a time before the epoch, which drops the
\* accumulator again)
register_new(t) ==
    /\ pc[t] = "register_new"
    /\ LET bounds == IF frame[t].kind = "Histogram" THEN BoundsOfKey[frame[t].key]
                     ELSE Ok(<<>>)
           arc == Len(heap) + 1 IN
       IF bounds.ok
       THEN \E now \in ClockReadings :
              /\ clock' = now
              /\ IF duration_since_fails(now)
                 THEN /\ Panics(t, "Time went backwards")
                      /\ UNCHANGED heap
                 ELSE /\ heap' = Append(heap, new_value(frame[t].kind, bounds.value))
                      /\ frame' = [frame EXCEPT
                                     ![t].arc = arc,
                                     ![t].metric =
                                         basic([kind |-> frame[t].kind, arc |-> arc], now)]
                      /\ pc' = [pc EXCEPT ![t] = "description_lock"]
                      /\ UNCHANGED ret
       ELSE /\ Panics(t, "Invalid value for bucket provided")
            /\ UNCHANGED <<heap, clock>>
    /\ UNCHANGED <<registry, handle, calls, log>>

\* update_description: `self.descriptions.lock().expect("description lock")`
update_description_lock(t) ==
    /\ pc[t] = "description_lock"
    /\ Free(descriptions_lock)
    /\ IF descriptions_lock.poisoned
       THEN /\ Panics(t, "description lock")
            /\ UNCHANGED descriptions_lock
       ELSE /\ descriptions_lock' = Held(descriptions_lock, t)
            /\ pc' = [pc EXCEPT ![t] = "description_find"]
            /\ UNCHANGED <<frame, ret>>
    /\ UNCHANGED <<clock, heap, metrics, descriptions, metrics_lock, handle, calls, log>>

\* a lookup that takes the first declaration whatever its name
find_description_any(name) == IF descriptions # <<>> THEN 1 ELSE 0

\* the first declaration for this name: `.iter().find(|d| d.key.as_str() ==
\* key)`; 0 when there is none
find_description(name) ==
    IF \E i \in 1..Len(descriptions) : descriptions[i].key = name
    THEN CHOOSE i \in 1..Len(descriptions) :
           /\ descriptions[i].key = name
           /\ \A j \in 1..i - 1 : descriptions[j].key # name
    ELSE 0

\* a lookup that keeps the descriptions guard when it returns
update_description_holding(t) ==
    /\ pc[t] = "description_find"
    /\ LET i == find_description(frame[t].key.name) IN
       frame' = [frame EXCEPT ![t].metric =
                   IF i = 0 THEN @
                   ELSE [@ EXCEPT !.description = descriptions[i].description,
                                  !.unit = descriptions[i].unit]]
    /\ pc' = [pc EXCEPT ![t] = "metric_lock"]
    /\ UNCHANGED <<clock, heap, metrics, descriptions, metrics_lock,
                   descriptions_lock, handle, ret, calls, log>>

\* a lookup that copies nothing into the new metric
update_description_unbound(t) ==
    /\ pc[t] = "description_find"
    /\ descriptions_lock' = Released(descriptions_lock)
    /\ pc' = [pc EXCEPT ![t] = "metric_lock"]
    /\ UNCHANGED <<clock, heap, metrics, descriptions, metrics_lock, handle, ret,
                   calls, log, frame>>

\* update_description: the declaration found is copied into the new metric
update_description(t) ==
    /\ pc[t] = "description_find"
    /\ LET i == find_description(frame[t].key.name) IN
       frame' = [frame EXCEPT ![t].metric =
                   IF i = 0 THEN @
                   ELSE [@ EXCEPT !.description = descriptions[i].description,
                                  !.unit = descriptions[i].unit]]
    /\ descriptions_lock' = Released(descriptions_lock)
    /\ pc' = [pc EXCEPT ![t] = "metric_lock"]
    /\ UNCHANGED <<clock, heap, metrics, descriptions, metrics_lock, handle, ret,
                   calls, log>>

\* add_metric: `self.metrics.lock().expect("metrics lock")`
add_metric_lock(t) ==
    /\ pc[t] = "metric_lock"
    /\ Free(metrics_lock)
    /\ IF metrics_lock.poisoned
       THEN /\ Panics(t, "metrics lock")
            /\ UNCHANGED metrics_lock
       ELSE /\ metrics_lock' = Held(metrics_lock, t)
            /\ pc' = [pc EXCEPT ![t] = "metric_push"]
            /\ UNCHANGED <<frame, ret>>
    /\ UNCHANGED <<clock, heap, metrics, descriptions, descriptions_lock, handle,
                   calls, log>>

\* a push at the front of the collection
add_metric_front(t) ==
    /\ pc[t] = "metric_push"
    /\ metrics' = <<[key |-> frame[t].key, data |-> frame[t].metric]>> \o metrics
    /\ metrics_lock' = Released(metrics_lock)
    /\ handle' = [handle EXCEPT ![t] = frame[t].metric.metric_type]
    /\ ret' = [ret EXCEPT ![t] =
                 [tag |-> "handle", handle |-> frame[t].metric.metric_type]]
    /\ pc' = [pc EXCEPT ![t] = "idle"]
    /\ frame' = [frame EXCEPT ![t] = NoFrame]
    /\ UNCHANGED <<clock, heap, descriptions, descriptions_lock, calls, log>>

\* add_metric: `.push((key, metric))`; register_* returns $mtype::from_arc(value)
add_metric(t) ==
    /\ pc[t] = "metric_push"
    /\ metrics' = Append(metrics, [key |-> frame[t].key, data |-> frame[t].metric])
    /\ metrics_lock' = Released(metrics_lock)
    /\ handle' = [handle EXCEPT ![t] = frame[t].metric.metric_type]
    /\ ret' = [ret EXCEPT ![t] =
                 [tag |-> "handle", handle |-> frame[t].metric.metric_type]]
    /\ pc' = [pc EXCEPT ![t] = "idle"]
    /\ frame' = [frame EXCEPT ![t] = NoFrame]
    /\ UNCHANGED <<clock, heap, descriptions, descriptions_lock, calls, log>>

(***************************************************************************)
(* OtlpRecorder: declarations (describe_counter, describe_gauge,           *)
(* describe_histogram, which all call add_description).                    *)
(***************************************************************************)
\* add_description: `self.descriptions.lock().expect("metrics lock")`
add_description_lock(t) ==
    /\ CanCall(t)
    /\ Free(descriptions_lock)
    /\ calls' = [calls EXCEPT ![t] = @ + 1]
    /\ \E d \in Declarations :
         IF descriptions_lock.poisoned
         THEN /\ Panics(t, "metrics lock")
              /\ UNCHANGED descriptions_lock
         ELSE /\ descriptions_lock' = Held(descriptions_lock, t)
              /\ pc' = [pc EXCEPT ![t] = "description_push"]
              /\ frame' = [frame EXCEPT ![t] =
                             [NoFrame EXCEPT
                                !.op = "describe",
                                !.key = [name |-> d.key, labels |-> <<>>],
                                !.metric = [NoMetric EXCEPT
                                              !.description = d.description,
                                              !.unit = d.unit]]]
              /\ UNCHANGED ret
    /\ UNCHANGED <<clock, heap, metrics, descriptions, metrics_lock, handle, log>>

describe_counter(t) == add_description_lock(t)

describe_gauge(t) == add_description_lock(t)

describe_histogram(t) == add_description_lock(t)

\* a push that also writes the declaration into the metrics of that name
add_description_retroactive(t) ==
    /\ pc[t] = "description_push"
    /\ descriptions' = Append(descriptions,
                              [key |-> frame[t].key.name,
                               description |-> frame[t].metric.description,
                               unit |-> frame[t].metric.unit])
    /\ metrics' = [i \in 1..Len(metrics) |->
                     IF metrics[i].key.name = frame[t].key.name
                     THEN [metrics[i] EXCEPT
                             !.data.description = frame[t].metric.description,
                             !.data.unit = frame[t].metric.unit]
                     ELSE metrics[i]]
    /\ descriptions_lock' = Released(descriptions_lock)
    /\ ret' = [ret EXCEPT ![t] = Unit]
    /\ pc' = [pc EXCEPT ![t] = "idle"]
    /\ frame' = [frame EXCEPT ![t] = NoFrame]
    /\ UNCHANGED <<clock, heap, metrics_lock, handle, calls, log>>

\* add_description: `.push(MetricDescription { key, description, unit })`
add_description(t) ==
    /\ pc[t] = "description_push"
    /\ descriptions' = Append(descriptions,
                              [key |-> frame[t].key.name,
                               description |-> frame[t].metric.description,
                               unit |-> frame[t].metric.unit])
    /\ descriptions_lock' = Released(descriptions_lock)
    /\ ret' = [ret EXCEPT ![t] = Unit]
    /\ pc' = [pc EXCEPT ![t] = "idle"]
    /\ frame' = [frame EXCEPT ![t] = NoFrame]
    /\ UNCHANGED <<clock, heap, metrics, metrics_lock, handle, calls, log>>

(***************************************************************************)
(* The document (json.rs).                                                 *)
(***************************************************************************)
RecorderName == "otlp-metrics"
RecorderVersion == "1"
RecorderInstanceId == "instance"

\* JsonValue::Null, which is written `null`: no number, it stands outside the
\* numbers as NaN does
Null == 0 - NaN

\* JsonValue::from(f64), as the object! macro converts a number: the json
\* crate keeps no NaN and no infinity apart, each becomes its NaN, which is
\* written `null`
json_f64(v) == IF v \in {NaN, Inf, NegInf} THEN Null ELSE v

\* metrics::Unit::as_canonical_label, for the units the threads declare
as_canonical_label(u) ==
    CASE u = "Bytes" -> "B"
      [] u = "Percent" -> "%"
      [] u = "Milliseconds" -> "ms"
      [] OTHER -> u

\* MetricData::unit
unit(data) == IF data.unit = None THEN "1" ELSE as_canonical_label(data.unit[1])

attr(key, value) == [key |-> key, value |-> [stringValue |-> value]]

\* `key.labels().map(|l| attr(l.key(), l.value())).collect()`
attributes(key) ==
    [i \in 1..Len(key.labels) |-> attr(key.labels[i].key, key.labels[i].value)]

\* a sum node whose data point starts at the last update
counter_started_at_update(key, data, value) ==
    [name |-> key.name, unit |-> unit(data), description |-> data.description,
     sum |-> [aggregationTemporality |-> 2, isMonotonic |-> TRUE,
              dataPoints |-> <<[asInt |-> value.value,
                                startTimeUnixNano |-> value.time,
                                timeUnixNano |-> value.time,
                                attributes |-> attributes(key)]>>]]

counter(key, data, value) ==
    [name |-> key.name, unit |-> unit(data), description |-> data.description,
     sum |-> [aggregationTemporality |-> 2, isMonotonic |-> TRUE,
              dataPoints |-> <<[asInt |-> value.value,
                                startTimeUnixNano |-> data.start_time,
                                timeUnixNano |-> value.time,
                                attributes |-> attributes(key)]>>]]

gauge(key, data, value) ==
    [name |-> key.name, unit |-> unit(data), description |-> data.description,
     gauge |-> [dataPoints |-> <<[asDouble |-> json_f64(value.value),
                                  startTimeUnixNano |-> data.start_time,
                                  timeUnixNano |-> value.time,
                                  attributes |-> attributes(key)]>>]]

histogram(key, data, value) ==
    [name |-> key.name, unit |-> unit(data), description |-> data.description,
     histogram |-> [aggregationTemporality |-> 2,
                    dataPoints |-> <<[startTimeUnixNano |-> data.start_time,
                                      timeUnixNano |-> value.time,
                                      count |-> value.count,
                                      sum |-> json_f64(value.sum),
                                      attributes |-> attributes(key),
                                      bucketCounts |-> value.bucket_count,
                                      explicitBounds |->
                                          [i \in 1..Len(value.explicit_bounds) |->
                                             json_f64(value.explicit_bounds[i])]]>>]]

\* the atomic words of an accumulator that its node reads, in the order in
\* which the fields of the node load them: value() and time() of a counter
\* and of a gauge; time(), count(), sum() and then every counter of
\* bucket_count() of a histogram
loaded_words(kind, value) ==
    CASE kind = "Counter" -> <<value.value, value.time>>
      [] kind = "Gauge" -> <<value.value, value.time>>
      [] kind = "Histogram" -> <<value.time, value.count, value.sum>> \o value.bucket_count

\* the accumulator as the node saw it: each word as it was when it was loaded
loaded_value(kind, value, loads) ==
    CASE kind = "Counter" -> [value |-> loads[1], time |-> loads[2]]
      [] kind = "Gauge" -> [value |-> loads[1], time |-> loads[2]]
      [] kind = "Histogram" ->
            [time |-> loads[1], count |-> loads[2], sum |-> loads[3],
             bucket_count |-> SubSeq(loads, 4, Len(loads)),
             explicit_bounds |-> value.explicit_bounds]

\* the closure of root: one node for each entry, of the kind of its
\* accumulator
metric_node(entry, value) ==
    LET m == entry.data.metric_type IN
    CASE m.kind = "Counter" -> counter(entry.key, entry.data, value)
      [] m.kind = "Gauge" -> gauge(entry.key, entry.data, value)
      [] m.kind = "Histogram" -> histogram(entry.key, entry.data, value)

\* root of json.rs: one resource, with the attribute attr(name, version), and
\* one scope, with the nodes
root(name, version, nodes) ==
    [resourceMetrics |-> <<
        [resource |-> [attributes |-> <<attr(name, version)>>],
         scopeMetrics |-> <<[metrics |-> nodes]>>]>>]

\* to_json calls json::metrics_to_json with the instance id as well as the
\* name and the version; json.rs has no function of these parameters. The
\* resource of that document carries the service name, the version and the
\* instance id, under the keys the tests of lib.rs read.
resource_attributes(name, version, instance_id) ==
    <<attr("service.name", name),
      attr("service.version", version),
      attr("service.instance.id", instance_id)>>

\* the document of that call: the one of root, its resource with these
\* attributes
root_with_instance_id(name, version, instance_id, nodes) ==
    [resourceMetrics |-> <<
        [root(name, version, nodes).resourceMetrics[1]
           EXCEPT !.resource.attributes =
                     resource_attributes(name, version, instance_id)]>>]

\* the metrics list of a document
DocMetrics(doc) == doc.resourceMetrics[1].scopeMetrics[1].metrics

(***************************************************************************)
(* OtlpRecorder::to_json.                                                  *)
(***************************************************************************)
\* `p.as_nanos() as u64`
as_u64(n) == n % U64Range

\* u64 subtraction: it overflows when the result would be negative, which
\* panics in a build with overflow checks and wraps in one without
sub_overflows(a, b) == a < b
wrapping_sub(a, b) == (a - b + U64Range) % U64Range

\* the filter of to_json: `current_time() - v.time() <= p.as_nanos() as u64`
in_window(now, time, p) == wrapping_sub(now, time) <= as_u64(p)

\* `self.metrics.lock().expect("metrics lock")`; without a period every
\* entry is collected
to_json(t) ==
    /\ CanCall(t)
    /\ Free(metrics_lock)
    /\ calls' = [calls EXCEPT ![t] = @ + 1]
    /\ \E period \in Periods :
         IF metrics_lock.poisoned
         THEN /\ Panics(t, "metrics lock")
              /\ UNCHANGED metrics_lock
         ELSE /\ metrics_lock' = Held(metrics_lock, t)
              /\ frame' = [frame EXCEPT ![t] =
                             [NoFrame EXCEPT
                                !.op = "to_json", !.period = period, !.i = 1,
                                !.keep = IF period = None
                                         THEN [i \in 1..Len(metrics) |-> i]
                                         ELSE <<>>]]
              /\ pc' = [pc EXCEPT ![t] =
                          IF metrics = <<>> THEN "metrics_to_json"
                          ELSE IF period = None THEN "json_load"
                          ELSE "filter_now"]
              /\ UNCHANGED ret
    /\ UNCHANGED <<clock, heap, metrics, descriptions, descriptions_lock, handle, log>>

\* the filter, for the i-th entry: current_time() is evaluated (a panic, the
\* guard of the metrics alive, when the clock reads a time before the epoch)
\* ...
filter_now(t) ==
    /\ pc[t] = "filter_now"
    /\ \E now \in ClockReadings :
         /\ clock' = now
         /\ IF duration_since_fails(now)
            THEN /\ metrics_lock' = Poisoned(metrics_lock)
                 /\ Panics(t, "Time went backwards")
            ELSE /\ frame' = [frame EXCEPT ![t].now = current_time(now)]
                 /\ pc' = [pc EXCEPT ![t] = "filter_time"]
                 /\ UNCHANGED <<metrics_lock, ret>>
    /\ UNCHANGED <<heap, metrics, descriptions, descriptions_lock, handle, calls, log>>

\* ... then v.time() is loaded, subtracted and the difference compared with
\* the period; the subtraction may overflow
filter_time(t) ==
    /\ pc[t] = "filter_time"
    /\ LET i == frame[t].i
           time == heap[metrics[i].data.metric_type.arc].time
           next == [frame[t] EXCEPT
                      !.i = i + 1,
                      !.now = 0,
                      !.keep = IF in_window(frame[t].now, time, frame[t].period[1])
                               THEN Append(@, i) ELSE @] IN
       \/ /\ frame' = [frame EXCEPT ![t] = next]
          /\ pc' = [pc EXCEPT ![t] =
                      IF i < Len(metrics) THEN "filter_now"
                      ELSE IF next.keep # <<>> THEN "json_load"
                      ELSE "metrics_to_json"]
          /\ UNCHANGED <<metrics_lock, ret>>
       \/ /\ sub_overflows(frame[t].now, time)
          /\ metrics_lock' = Poisoned(metrics_lock)
          /\ Panics(t, "attempt to subtract with overflow")
    /\ UNCHANGED <<clock, heap, metrics, descriptions, descriptions_lock, handle,
                   calls, log>>

\* a mutant: the export resets the counters it wrote (delta temporality)
heap_after_export_reset(keep) ==
    [a \in 1..Len(heap) |->
       IF \E k \in 1..Len(keep) :
            /\ metrics[keep[k]].data.metric_type.arc = a
            /\ metrics[keep[k]].data.metric_type.kind = "Counter"
       THEN [heap[a] EXCEPT !.value = 0]
       ELSE heap[a]]

\* the accumulators after the entries `keep` were written: as before
heap_after_export(keep) == heap

\* json::metrics_to_json, the nodes: the next atomic word of the entry that
\* is being written is loaded; the node is built when its last word is
\* loaded, and then the next of the entries collected is written
metric_load(t) ==
    /\ pc[t] = "json_load"
    /\ LET keep == frame[t].keep
           entry == metrics[keep[Len(frame[t].nodes) + 1]]
           m == entry.data.metric_type
           words == loaded_words(m.kind, heap[m.arc])
           loads == Append(frame[t].loads, words[Len(frame[t].loads) + 1]) IN
       IF Len(loads) < Len(words)
       THEN /\ frame' = [frame EXCEPT ![t].loads = loads]
            /\ UNCHANGED pc
       ELSE /\ frame' = [frame EXCEPT
                           ![t].loads = <<>>,
                           ![t].nodes =
                               Append(@, metric_node(entry,
                                                     loaded_value(m.kind, heap[m.arc],
                                                                  loads)))]
            /\ pc' = [pc EXCEPT ![t] =
                        IF Len(frame[t].nodes) + 1 < Len(keep)
                        THEN "json_load" ELSE "metrics_to_json"]
    /\ UNCHANGED <<clock, heap, registry, handle, ret, calls, log>>

\* json::metrics_to_json as to_json calls it, the document: the root around
\* the nodes, which is written out; the guard of the lock is dropped when
\* to_json returns
metrics_to_json(t) ==
    /\ pc[t] = "metrics_to_json"
    /\ LET keep == frame[t].keep IN
       /\ ret' = [ret EXCEPT ![t] =
                    [tag |-> "json", period |-> frame[t].period,
                     doc |-> root_with_instance_id(RecorderName, RecorderVersion,
                                                   RecorderInstanceId,
                                                   frame[t].nodes)]]
       /\ heap' = heap_after_export(keep)
    /\ metrics_lock' = Released(metrics_lock)
    /\ pc' = [pc EXCEPT ![t] = "idle"]
    /\ frame' = [frame EXCEPT ![t] = NoFrame]
    /\ UNCHANGED <<clock, metrics, descriptions, descriptions_lock, handle, calls, log>>

(***************************************************************************)
(* The recorder shared by the threads, each of which registers, declares,  *)
(* exports and updates the accumulator of the handle it got last.          *)
(***************************************************************************)
\* OtlpRecorder::new
Init ==
    /\ heap = <<>>
    /\ InitThreads(NoHandle)

Next ==
    \E t \in Threads :
         \/ register_counter(t)
         \/ register_gauge(t)
         \/ register_histogram(t)
         \/ return_existing_metric(t)
         \/ register_new(t)
         \/ update_description_lock(t)
         \/ update_description(t)
         \/ add_metric_lock(t)
         \/ add_metric(t)
         \/ describe_counter(t)
         \/ describe_gauge(t)
         \/ describe_histogram(t)
         \/ add_description(t)
         \/ to_json(t)
         \/ filter_now(t)
         \/ filter_time(t)
         \/ metric_load(t)
         \/ metrics_to_json(t)
         \/ \E value \in RecorderUpdates.increment : CounterValue_increment(t, value)
         \/ \E value \in RecorderUpdates.absolute : CounterValue_absolute(t, value)
         \/ \E value \in RecorderUpdates.gauge : GaugeValue_increment(t, value)
         \/ \E value \in RecorderUpdates.gauge : GaugeValue_decrement(t, value)
         \/ GaugeValue_fetch_update(t)
         \/ \E value \in RecorderUpdates.set : GaugeValue_set(t, value)
         \/ \E value \in RecorderUpdates.record : HistogramValue_record(t, value)
         \/ HistogramValue_fetch_update(t)
         \/ HistogramValue_bucket(t)
         \/ HistogramValue_count(t)
         \/ time_now(t)
         \/ time_swap(t)

Spec == Init /\ [][Next]_vars

\* The registry operations on their own (register_*, describe_*, to_json),
\* with a scheduler that lets every thread that is inside a call run again:
\* the steps of a call after its first are weakly fair for each thread.
NextRegistry ==
    \E t \in Threads :
         \/ register_counter(t)
         \/ register_gauge(t)
         \/ register_histogram(t)
         \/ return_existing_metric(t)
         \/ register_new(t)
         \/ update_description_lock(t)
         \/ update_description(t)
         \/ add_metric_lock(t)
         \/ add_metric(t)
         \/ describe_counter(t)
         \/ describe_gauge(t)
         \/ describe_histogram(t)
         \/ add_description(t)
         \/ to_json(t)
         \/ filter_now(t)
         \/ filter_time(t)
         \/ metric_load(t)
         \/ metrics_to_json(t)

InRegistryCall(t) ==
    \/ return_existing_metric(t)
    \/ register_new(t)
    \/ update_description_lock(t)
    \/ update_description(t)
    \/ add_metric_lock(t)
    \/ add_metric(t)
    \/ add_description(t)
    \/ filter_now(t)
    \/ filter_time(t)
    \/ metric_load(t)
    \/ metrics_to_json(t)

SpecRegistryFair ==
    Init /\ [][NextRegistry]_vars /\ \A t \in Threads : WF_vars(InRegistryCall(t))

(***************************************************************************)
(* What the claims speak of.                                               *)
(***************************************************************************)
\* no call is in progress
AllIdle == \A t \in Threads : pc[t] = "idle"

\* the updates of the log with operation `op`
LoggedOps(op) == {e \in BagToSet(log) : e.op = op}

\* the sum of the arguments of the updates of a bag
RECURSIVE BagSum(_)
BagSum(B) ==
    IF BagToSet(B) = {} THEN 0
    ELSE LET e == CHOOSE x \in BagToSet(B) : TRUE IN
         e.arg + BagSum(B (-) SetToBag({e}))

\* a gauge update applied to the value v
GaugeApply(e, v) ==
    CASE e.op = "increment" -> f64_add(v, e.arg)
      [] e.op = "decrement" -> f64_sub(v, e.arg)
      [] e.op = "set" -> e.arg

\* the values the updates of a bag give when applied to v one at a time, in
\* each of their orders
RECURSIVE SerialResults(_, _)
SerialResults(B, v) ==
    IF BagToSet(B) = {} THEN {v}
    ELSE UNION {SerialResults(B (-) SetToBag({e}), GaugeApply(e, v)) : e \in BagToSet(B)}

\* a < b of two f64: false when one is NaN
f64_lt(a, b) == a # NaN /\ b # NaN /\ a < b

StrictlyAscending(bounds) ==
    \A i \in 1..Len(bounds) - 1 : f64_lt(bounds[i], bounds[i + 1])

\* the bucket of x under bounds b1 < ... < bk: the first when x <= b1, the
\* one after the last bound when x > bk, else the i-th with b(i-1) < x <= bi;
\* 0, no bucket, when none of these comparisons holds
ClaimedBucket(bounds, x) ==
    IF f64_le(x, bounds[1]) THEN 1
    ELSE IF f64_gt(x, bounds[Len(bounds)]) THEN Len(bounds) + 1
    ELSE IF \E i \in 2..Len(bounds) : f64_lt(bounds[i - 1], x) /\ f64_le(x, bounds[i])
    THEN CHOOSE i \in 2..Len(bounds) : f64_lt(bounds[i - 1], x) /\ f64_le(x, bounds[i])
    ELSE 0

\* how many of the logged records the claimed rule puts into bucket j
RECURSIVE ClaimedCount(_, _, _)
ClaimedCount(B, bounds, j) ==
    IF BagToSet(B) = {} THEN 0
    ELSE LET e == CHOOSE x \in BagToSet(B) : TRUE IN
         (IF ClaimedBucket(bounds, e.arg) = j THEN 1 ELSE 0)
             + ClaimedCount(B (-) SetToBag({e}), bounds, j)

(***************************************************************************)
(* The claims.                                                             *)
(***************************************************************************)
\* C1: once the increments called on a fresh counter, from whichever threads
\* and however interleaved, have all returned, the counter's value is the
\* sum of their deltas, a sum of u64 values as the counter holds it.
C1_IncrementsAddUp ==
    (AllIdle /\ LoggedOps("absolute") = {}) =>
        heap[1].value = BagSum(log) % U64Range

C1_Witness ==
    /\ AllIdle
    /\ LoggedOps("absolute") = {}
    /\ BagCardinality(log) = 3
    /\ heap[1].value = 5

\* C2: once the increments, decrements and sets called concurrently on one
\* gauge have all returned, its value is the value that applying the same
\* operations one at a time, in some order, gives.
C2_GaugeSerializable ==
    AllIdle => heap[1].value \in SerialResults(log, GaugeValue.value)

C2_Witness ==
    /\ AllIdle
    /\ LoggedOps("increment") # {}
    /\ LoggedOps("decrement") # {}
    /\ LoggedOps("set") # {}
    /\ heap[1].value = 4

RECURSIVE SeqSum(_)
SeqSum(q) == IF q = <<>> THEN 0 ELSE Head(q) + SeqSum(Tail(q))

\* C3: with strictly ascending bounds, once the records have returned every
\* bucket counter holds the number of recorded values the rule
\* (x <= b1: first bucket; b(i-1) < x <= bi: bucket i; x > bk: last bucket)
\* puts into it, and each record of whatever value incremented exactly one
\* bucket, by one: the counters add up to the number of records.
C3_OneBucketPerRecord ==
    LET h == heap[1] IN
    (AllIdle /\ h.explicit_bounds # <<>> /\ StrictlyAscending(h.explicit_bounds))
        => /\ \A j \in 1..Len(h.bucket_count) :
                h.bucket_count[j] = ClaimedCount(log, h.explicit_bounds, j)
           /\ SeqSum(h.bucket_count) = BagCardinality(log)

\* the values recorded are numbers: none is NaN or an infinity
AllFinite(B) == \A e \in BagToSet(B) : e.arg \notin {NaN, Inf, NegInf}

\* the sums the values of a bag give when they are added to v one at a time,
\* each addition an addition of f64, in each of their orders
RECURSIVE SerialSums(_, _)
SerialSums(B, v) ==
    IF BagToSet(B) = {} THEN {v}
    ELSE UNION {SerialSums(B (-) SetToBag({e}), f64_add(v, e.arg)) : e \in BagToSet(B)}

\* C4 as stated: once n records of numbers v1..vn have returned, with or
\* without bounds, the count is n and the sum is v1 + ... + vn, the f64 that
\* number is (or is nearest to).
C4_CountAndSum ==
    (AllIdle /\ AllFinite(log)) =>
        /\ heap[1].count = BagCardinality(log)
        /\ heap[1].sum = f64_round(BagSum(log), 1)

\* C4, amended: once n records of v1..vn have returned, with or without
\* bounds, the count is n and the sum is what adding v1..vn to 0 one at a
\* time gives in f64 arithmetic, in one of their orders (the order in which
\* the compare-and-swaps stored them): no addition is lost, each is rounded.
C4_CountAndSerialSum ==
    AllIdle => /\ heap[1].count = BagCardinality(log)
               /\ heap[1].sum \in SerialSums(log, HistogramValue.sum)

\* three records have returned; the sum lost the two small values in
\* rounding, which it would not have done with the large value added last
C4_Witness ==
    /\ AllIdle
    /\ heap[1].count = 3
    /\ log = Logged(1, "record", F64Exact) (+) Logged(1, "record", 1)
                (+) Logged(1, "record", 1)
    /\ heap[1].sum = F64Exact
    /\ F64Exact + 2 \in SerialSums(log, 0)

(***************************************************************************)
(* The recorder: what the claims speak of.                                 *)
(***************************************************************************)
\* the step is one of thread t
Steps(t) == pc'[t] # pc[t] \/ frame'[t] # frame[t]

\* the entries of metrics with this name and an accumulator of this kind
EntriesOf(name, kind) ==
    {i \in 1..Len(metrics) :
       /\ metrics[i].key.name = name
       /\ metrics[i].data.metric_type.kind = kind}

\* the entries of metrics with this name and an accumulator of another kind
EntriesOfOtherKind(name, kind) ==
    {i \in 1..Len(metrics) :
       /\ metrics[i].key.name = name
       /\ metrics[i].data.metric_type.kind # kind}

\* thread t, inside a register call, looks its name up in this step
LooksUp(t) == pc[t] = "register_find" /\ pc'[t] # "register_find"

\* C5: a register call for a name that is registered with the kind asked for
\* returns a handle to the accumulator of an entry of that name and kind, and
\* leaves the collection as it is (no entry appended, the labels of the
\* entries kept).
C5_ReRegisterReturnsExisting ==
    [][\A t \in Threads :
         (LooksUp(t) /\ EntriesOf(frame[t].key.name, frame[t].kind) # {}) =>
             /\ pc'[t] = "idle"
             /\ ret'[t].tag = "handle"
             /\ \E i \in EntriesOf(frame[t].key.name, frame[t].kind) :
                  ret'[t].handle = metrics[i].data.metric_type
             /\ metrics' = metrics]_vars

\* C6: in every reachable state the collection holds at most one entry for a
\* name.
C6_OneEntryPerName ==
    \A i, j \in 1..Len(metrics) :
       metrics[i].key.name = metrics[j].key.name => i = j

\* the names of the nodes of a document, in order
DocNames(doc) == [k \in 1..Len(DocMetrics(doc)) |-> DocMetrics(doc)[k].name]

\* C7: the filter, which examines at time `now` an entry last updated at
\* `time`, keeps it exactly when now = time + d with d <= W, W the window; the
\* document has a node for every entry kept, in order, and for every entry
\* when there is no window.
C7_SnapshotWindow ==
    [][\A t \in Threads :
         /\ (pc[t] = "filter_time" /\ Steps(t)) =>
              LET i == frame[t].i
                  time == heap[metrics[i].data.metric_type.arc].time
                  now == frame[t].now
                  W == frame[t].period[1] IN
              /\ pc'[t] # "panicked"
              /\ (\E k \in 1..Len(frame'[t].keep) : frame'[t].keep[k] = i)
                   <=> now - time <= W
         /\ (pc[t] = "metrics_to_json" /\ Steps(t)) =>
              /\ ret'[t].tag = "json"
              /\ DocNames(ret'[t].doc) =
                   [k \in 1..Len(frame[t].keep) |-> metrics[frame[t].keep[k]].key.name]
              /\ frame[t].period = None =>
                   DocNames(ret'[t].doc) =
                     [k \in 1..Len(metrics) |-> metrics[k].key.name]]_vars

\* thread t is inside to_json before or after the step
InToJson(t) == frame[t].op = "to_json" \/ frame'[t].op = "to_json"

\* C8: no step of to_json changes an accumulator, the collection or the
\* declarations.
C8_SnapshotReadOnly ==
    [][\A t \in Threads :
         (Steps(t) /\ InToJson(t)) => UNCHANGED <<heap, metrics, descriptions>>]_vars

\* a snapshot showed a counter at 1 and the counter is still at 1
C8_Witness ==
    \E t \in Threads :
       /\ pc[t] = "idle"
       /\ ret[t].tag = "json"
       /\ ret[t].period = None
       /\ Len(DocMetrics(ret[t].doc)) = 1
       /\ "sum" \in DOMAIN DocMetrics(ret[t].doc)[1]
       /\ DocMetrics(ret[t].doc)[1].sum.dataPoints[1].asInt = 1
       /\ heap[1].value = 1

\* C9: a register call for a name that is registered with another kind than
\* the one asked for panics, and leaves the collection and the accumulators
\* as they are.
C9_KindMismatchFaults ==
    [][\A t \in Threads :
         (LooksUp(t) /\ EntriesOfOtherKind(frame[t].key.name, frame[t].kind) # {}) =>
             /\ pc'[t] = "panicked"
             /\ ret'[t] = Panic("Unexpected metric type")
             /\ metrics' = metrics
             /\ heap' = heap]_vars

\* a piece of a "buckets" label that writes a number: a string f64 parses,
\* other than the words for NaN, which is no number
IsNumber(s) == parse(s).ok /\ parse(s).value # NaN

\* the key has a "buckets" label with a piece that is no number
NonNumericBuckets(key) ==
    /\ find_buckets(key.labels) # None
    /\ LET pieces == split(find_buckets(key.labels)[1], ",") IN
       \E i \in 1..Len(pieces) : ~IsNumber(trim(pieces[i]))

\* every histogram has a bucket more than bounds, or neither: the
\* `expect`s of record find what they look for
RecordCannotFail ==
    \A a \in 1..Len(heap) :
       "bucket_count" \in DOMAIN heap[a] =>
          IF heap[a].explicit_bounds = <<>> THEN heap[a].bucket_count = <<>>
          ELSE Len(heap[a].bucket_count) = Len(heap[a].explicit_bounds) + 1

\* C10: a register call that creates a histogram from a key whose "buckets"
\* label has a piece that is no number panics where it reads the bounds, and
\* no histogram of the collection has such a key; no step of record panics and
\* every bucket record increments exists.
C10_MalformedBucketsFault ==
    [][\A t \in Threads :
         /\ (pc[t] = "register_new" /\ Steps(t) /\ frame[t].kind = "Histogram"
               /\ NonNumericBuckets(frame[t].key)) =>
              /\ ret'[t] = Panic("Invalid value for bucket provided")
              /\ pc'[t] = "panicked"
              /\ metrics' = metrics
         /\ \A i \in 1..Len(metrics') :
              metrics'[i].data.metric_type.kind = "Histogram" =>
                 ~NonNumericBuckets(metrics'[i].key)
         /\ (frame[t].op = "record" /\ Steps(t)) =>
              /\ pc'[t] # "panicked"
              /\ pc[t] = "record_bucket" =>
                   Head(frame[t].todo) \in 1..Len(heap[frame[t].arc].bucket_count)
         /\ RecordCannotFail']_vars

\* the declarations made so far for a bare name
DeclarationsOf(name) ==
    {i \in 1..Len(descriptions) : descriptions[i].key = name}

\* C11: the metric a register call creates gets, where the call looks the
\* declarations up, the unit and description of a declaration already made
\* for its bare name (whatever its labels), and with no such declaration an
\* empty description and no unit, which serialize as "" and "1"; the entry
\* the call pushes carries exactly that unit and description.
C11_MetadataBoundAtCreation ==
    [][\A t \in Threads :
         /\ (pc[t] = "description_find" /\ Steps(t)) =>
              LET m == frame'[t].metric
                  D == DeclarationsOf(frame[t].key.name) IN
              IF D # {}
              THEN \E i \in D : /\ m.description = descriptions[i].description
                                /\ m.unit = descriptions[i].unit
              ELSE /\ m.description = ""
                   /\ m.unit = None
                   /\ unit(m) = "1"
         /\ (pc[t] = "metric_push" /\ Steps(t)) =>
              /\ Len(metrics') = Len(metrics) + 1
              /\ metrics'[Len(metrics')].key = frame[t].key
              /\ metrics'[Len(metrics')].data.unit = frame[t].metric.unit
              /\ metrics'[Len(metrics')].data.description
                    = frame[t].metric.description]_vars

\* a metric with labels was created with the unit and description declared
\* for its bare name, and one of an undeclared name was created without
C11_Witness ==
    \E i, j \in 1..Len(metrics) :
       /\ metrics[i].key = KeyALabels
       /\ metrics[i].data.unit = Some("Bytes")
       /\ metrics[i].data.description = "bytes of a"
       /\ metrics[j].key.name = "b"
       /\ metrics[j].data.unit = None
       /\ metrics[j].data.description = ""

\* thread t takes a step of a describe call
InDescribe(t) == frame[t].op = "describe" \/ frame'[t].op = "describe"

\* thread t serializes the entries it kept and returns the document
Serializes(t) == pc[t] = "metrics_to_json" /\ pc'[t] = "idle"

\* C12: a describe call changes nothing but the list of declarations, to
\* which its push appends the one declaration; no step of any call changes
\* the unit or description of a metric already in the collection (of the
\* declared name or not), and each snapshot taken serializes every metric
\* with the unit and description its entry has had since it was pushed.
C12_DescribeOnlyAppends ==
    [][\A t \in Threads :
         /\ (Steps(t) /\ InDescribe(t)) =>
              /\ UNCHANGED <<metrics, heap>>
              /\ IF pc[t] = "description_push"
                 THEN /\ Len(descriptions') = Len(descriptions) + 1
                      /\ SubSeq(descriptions', 1, Len(descriptions)) = descriptions
                      /\ descriptions'[Len(descriptions')].key = frame[t].key.name
                 ELSE descriptions' = descriptions
         /\ \A i \in 1..Len(metrics) :
              /\ i <= Len(metrics')
              /\ metrics'[i].data.unit = metrics[i].data.unit
              /\ metrics'[i].data.description = metrics[i].data.description
         /\ Serializes(t) =>
              /\ ret'[t].tag = "json"
              /\ Len(DocMetrics(ret'[t].doc)) = Len(frame[t].keep)
              /\ \A k \in 1..Len(frame[t].keep) :
                   LET node == DocMetrics(ret'[t].doc)[k]
                       entry == metrics[frame[t].keep[k]] IN
                   /\ node.unit = unit(entry.data)
                   /\ node.description = entry.data.description]_vars

\* a snapshot is about to serialize a metric created without unit, after its
\* name was declared with one
C12_Witness ==
    /\ \E t \in Threads : pc[t] = "metrics_to_json" /\ frame[t].keep = <<1>>
    /\ Len(metrics) = 1
    /\ metrics[1].key.name = "a"
    /\ metrics[1].data.unit = None
    /\ \E i \in 1..Len(descriptions) :
          descriptions[i].key = "a" /\ descriptions[i].unit = Some("Bytes")

\* the first declaration made for a bare name (there is one)
FirstDeclaration(name) ==
    descriptions[CHOOSE i \in DeclarationsOf(name) :
                    \A j \in DeclarationsOf(name) : i <= j]

\* C13 as stated: whenever a snapshot serializes a metric for whose bare name
\* a declaration exists, made before or after the metric was created, the
\* metric's node carries the unit and description of a declaration.
C13_DeclaredEitherWayFilled ==
    [][\A t \in Threads :
         Serializes(t) =>
            \A k \in 1..Len(frame[t].keep) :
               LET node == DocMetrics(ret'[t].doc)[k]
                   D == DeclarationsOf(node.name) IN
               D # {} =>
                  \E i \in D :
                     /\ node.description = descriptions[i].description
                     /\ node.unit = unit(descriptions[i])]_vars

\* C13, amended: a declaration is filled in only where the metric is created.
\* A register call that finds declarations for its name when it looks them
\* up creates the metric with the unit and description of the first of them;
\* the push of a later declaration leaves the metrics of that name as they
\* are; so a snapshot serializes a metric either with the first declaration
\* of its name or with the defaults "1" and "" it was created with.
C13_FilledOnlyAtCreation ==
    [][\A t \in Threads :
         /\ (pc[t] = "description_find" /\ Steps(t)
               /\ DeclarationsOf(frame[t].key.name) # {}) =>
              LET d == FirstDeclaration(frame[t].key.name) IN
              /\ frame'[t].metric.description = d.description
              /\ frame'[t].metric.unit = d.unit
         /\ (pc[t] = "description_push" /\ Steps(t)) =>
              \A i \in 1..Len(metrics') :
                 metrics'[i].key.name = frame[t].key.name =>
                    /\ i <= Len(metrics)
                    /\ metrics'[i].data = metrics[i].data
         /\ Serializes(t) =>
              \A k \in 1..Len(frame[t].keep) :
                 LET node == DocMetrics(ret'[t].doc)[k] IN
                 \/ node.unit = "1" /\ node.description = ""
                 \/ /\ DeclarationsOf(node.name) # {}
                    /\ node.unit = unit(FirstDeclaration(node.name))
                    /\ node.description
                          = FirstDeclaration(node.name).description]_vars

\* a snapshot is about to serialize a metric that was created with the empty
\* description, after a description was declared for its name
C13_Witness ==
    \E t \in Threads :
       /\ pc[t] = "metrics_to_json"
       /\ frame[t].keep = <<1>>
       /\ metrics[1].key.name = "a"
       /\ metrics[1].data.description = ""
       /\ DeclarationsOf("a") # {}
       /\ FirstDeclaration("a").description = "a again"

Max(a, b) == IF a >= b THEN a ELSE b

\* thread t calls absolute: the step that does the fetch_max
CallsAbsolute(t) == pc[t] = "idle" /\ frame'[t].op = "absolute"

\* C14: the step of absolute(x) that updates a counter of value m leaves it at
\* max(m, x), whatever the increments of other threads did before it and
\* whichever of them are still in progress, and the rest of the call (the
\* time stamp) leaves the value alone.
C14_AbsoluteIsMax ==
    [][\A t \in Threads :
         /\ CallsAbsolute(t) =>
              heap'[frame'[t].arc].value
                 = Max(heap[frame'[t].arc].value, frame'[t].arg)
         /\ (frame[t].op = "absolute" /\ Steps(t)) =>
              heap'[frame[t].arc].value = heap[frame[t].arc].value]_vars

\* absolute(3) raised the counter from 1 to 3 and has not returned yet when
\* an increment of the other thread adds 2
C14_Witness ==
    \E t \in Threads :
       /\ pc[t] # "idle"
       /\ frame[t].op = "absolute"
       /\ frame[t].arg = 3
       /\ log = Logged(1, "increment", 1) (+) Logged(1, "absolute", 3)
                   (+) Logged(1, "increment", 2)
       /\ heap[1].value = 5

\* C15: no step of an increment or an absolute, whatever its argument, takes
\* the counter's value below what it was, also when the increments add up
\* to more than a u64 holds.
C15_NeverDecreases ==
    [][heap'[1].value >= heap[1].value]_vars

\* the data point of a metric node
PointOf(node) ==
    CASE "sum" \in DOMAIN node -> node.sum.dataPoints[1]
      [] "gauge" \in DOMAIN node -> node.gauge.dataPoints[1]
      [] "histogram" \in DOMAIN node -> node.histogram.dataPoints[1]

\* the indices of a sequence of indices increase strictly
Increasing(keep) == \A k \in 1..Len(keep) - 1 : keep[k] < keep[k + 1]

\* the document a snapshot without window would be, taken in this state at
\* once
Unwindowed ==
    [i \in 1..Len(metrics) |->
       metric_node(metrics[i], heap[metrics[i].data.metric_type.arc])]

\* what tells the node of one metric from that of another: its name, its
\* kind and its attributes
NodeIdentity(node) ==
    [name |-> node.name, kind |-> DOMAIN node \ {"name", "unit", "description"},
     attributes |-> PointOf(node).attributes]

\* C16: no step removes an entry of the collection or moves it: the entries
\* there keep their places, their identities and their accumulators, and a
\* register call pushes behind them. A snapshot without window has one node
\* for each entry, in the order of the collection; a snapshot with a window
\* has the nodes of the entries it kept, which are nodes of the snapshot
\* without window in the same order.
C16_RegistrationOrder ==
    [][/\ Len(metrics') >= Len(metrics)
       /\ \A i \in 1..Len(metrics) :
            /\ metrics'[i].key = metrics[i].key
            /\ metrics'[i].data.metric_type = metrics[i].data.metric_type
       /\ \A t \in Threads :
            Serializes(t) =>
               LET nodes == DocMetrics(ret'[t].doc)
                   keep == frame[t].keep IN
               /\ Len(nodes) = Len(keep)
               /\ Increasing(keep)
               /\ \A k \in 1..Len(keep) :
                    /\ keep[k] \in 1..Len(metrics)
                    /\ NodeIdentity(nodes[k]) = NodeIdentity(Unwindowed[keep[k]])
                    /\ nodes[k].name = metrics[keep[k]].key.name
               /\ frame[t].period = None => keep = [i \in 1..Len(metrics) |-> i]]_vars

\* a snapshot with a window returned the first of two metrics only, and the
\* collection holds them as they were registered
C16_Witness ==
    \E t \in Threads :
       /\ pc[t] = "idle"
       /\ ret[t].tag = "json"
       /\ ret[t].period # None
       /\ Len(metrics) = 2
       /\ metrics[1].key.name = "a"
       /\ metrics[2].key.name = "b"
       /\ Len(DocMetrics(ret[t].doc)) = 1
       /\ DocMetrics(ret[t].doc)[1].name = "a"

\* the data point has one string attribute for each label of the identity,
\* in the order of the labels
AttributePerLabel(point, key) ==
    /\ Len(point.attributes) = Len(key.labels)
    /\ \A i \in 1..Len(key.labels) :
          /\ point.attributes[i].key = key.labels[i].key
          /\ point.attributes[i].value = [stringValue |-> key.labels[i].value]

\* the data point carries the entry's start time and the accumulator's time
PointTimes(point, entry, value) ==
    /\ point.startTimeUnixNano = entry.data.start_time
    /\ point.timeUnixNano = value.time

\* the node is the one the claim describes for the entry and its accumulator
ClaimedNode(node, entry, value) ==
    LET kind == entry.data.metric_type.kind IN
    /\ node.name = entry.key.name
    /\ kind = "Counter" =>
          /\ DOMAIN node = {"name", "unit", "description", "sum"}
          /\ node.sum.aggregationTemporality = 2
          /\ node.sum.isMonotonic = TRUE
          /\ Len(node.sum.dataPoints) = 1
          /\ node.sum.dataPoints[1].asInt = value.value
          /\ PointTimes(node.sum.dataPoints[1], entry, value)
          /\ AttributePerLabel(node.sum.dataPoints[1], entry.key)
    /\ kind = "Gauge" =>
          /\ DOMAIN node = {"name", "unit", "description", "gauge"}
          /\ Len(node.gauge.dataPoints) = 1
          /\ node.gauge.dataPoints[1].asDouble = value.value
          /\ PointTimes(node.gauge.dataPoints[1], entry, value)
          /\ AttributePerLabel(node.gauge.dataPoints[1], entry.key)
    /\ kind = "Histogram" =>
          /\ DOMAIN node = {"name", "unit", "description", "histogram"}
          /\ node.histogram.aggregationTemporality = 2
          /\ Len(node.histogram.dataPoints) = 1
          /\ node.histogram.dataPoints[1].count = value.count
          /\ node.histogram.dataPoints[1].sum = value.sum
          /\ node.histogram.dataPoints[1].bucketCounts = value.bucket_count
          /\ node.histogram.dataPoints[1].explicitBounds = value.explicit_bounds
          /\ PointTimes(node.histogram.dataPoints[1], entry, value)
          /\ AttributePerLabel(node.histogram.dataPoints[1], entry.key)

\* thread t loads the last word of an entry and builds the entry's node
BuildsNode(t) == pc[t] = "json_load" /\ Len(frame'[t].nodes) = Len(frame[t].nodes) + 1

\* C17: the document a snapshot returns has exactly one node for each entry
\* the snapshot kept: a "sum" node (aggregationTemporality 2, isMonotonic
\* true) for a counter, a "gauge" node for a gauge, a "histogram" node
\* (aggregationTemporality 2) for a histogram, each with one data point that
\* carries the entry's start time, the accumulator's last-update time and
\* value(s) as the snapshot read them, and one string attribute for each
\* label of the entry's identity, in label order.
C17_OneNodePerEntry ==
    [][\A t \in Threads :
         /\ BuildsNode(t) =>
              LET entry == metrics[frame[t].keep[Len(frame'[t].nodes)]]
                  m == entry.data.metric_type
                  words == loaded_words(m.kind, heap[m.arc])
                  read == Append(frame[t].loads, words[Len(words)]) IN
              ClaimedNode(frame'[t].nodes[Len(frame'[t].nodes)], entry,
                          loaded_value(m.kind, heap[m.arc], read))
         /\ Serializes(t) =>
              /\ ret'[t].tag = "json"
              /\ Len(DocMetrics(ret'[t].doc)) = Len(frame[t].keep)
              /\ DocMetrics(ret'[t].doc) = frame[t].nodes]_vars

\* the numbers the "buckets" label of an identity lists, none without the
\* label
ListedNumbers(key) ==
    IF find_buckets(key.labels) = None THEN <<>>
    ELSE LET pieces == split(find_buckets(key.labels)[1], ",") IN
         [i \in 1..Len(pieces) |-> parse(trim(pieces[i])).value]

\* the accumulator is the histogram the claim describes for the identity
ClaimedHistogram(h, arc, key) ==
    LET listed == ListedNumbers(key) IN
    /\ h.explicit_bounds = listed
    /\ Len(h.bucket_count) = IF listed = <<>> THEN 0 ELSE Len(listed) + 1
    /\ (\A e \in BagToSet(log) : e.arc # arc) =>
          \A j \in 1..Len(h.bucket_count) : h.bucket_count[j] = 0

\* C18: in every state, a histogram that a register call has created, pushed
\* or not yet, has as bounds the numbers the "buckets" label of its identity
\* lists and one bucket counter more than bounds, all zero as long as nothing
\* was recorded, or neither bounds nor counters when the identity has no such
\* label; and a histogram node of a returned document whose attributes have
\* no "buckets" has empty bucketCounts and explicitBounds.
C18_BoundsFixedAtCreation ==
    /\ \A i \in 1..Len(metrics) :
          metrics[i].data.metric_type.kind = "Histogram" =>
             ClaimedHistogram(heap[metrics[i].data.metric_type.arc],
                              metrics[i].data.metric_type.arc, metrics[i].key)
    /\ \A t \in Threads :
          /\ frame[t].metric.metric_type.kind = "Histogram" =>
                ClaimedHistogram(heap[frame[t].metric.metric_type.arc],
                                 frame[t].metric.metric_type.arc, frame[t].key)
          /\ ret[t].tag = "json" =>
                \A k \in 1..Len(DocMetrics(ret[t].doc)) :
                   LET node == DocMetrics(ret[t].doc)[k] IN
                   ("histogram" \in DOMAIN node
                      /\ \A a \in 1..Len(node.histogram.dataPoints[1].attributes) :
                            node.histogram.dataPoints[1].attributes[a].key # "buckets") =>
                      /\ node.histogram.dataPoints[1].bucketCounts = <<>>
                      /\ node.histogram.dataPoints[1].explicitBounds = <<>>

\* a histogram created from the label "1, 3" has two bounds and three
\* counters, before and after a record
C18_Witness ==
    \E i \in 1..Len(metrics) :
       /\ metrics[i].key = KeyALabels
       /\ metrics[i].data.metric_type.kind = "Histogram"
       /\ heap[metrics[i].data.metric_type.arc].explicit_bounds = <<1, 3>>
       /\ heap[metrics[i].data.metric_type.arc].bucket_count = <<0, 1, 0>>

\* C19: the start time of a metric is the clock reading of the register call
\* that creates it, and the entry is pushed with it; no step of any call (an update, a registration of the
\* same or another name, a describe, a snapshot) changes the start time of an
\* entry of the collection, and every snapshot serializes each metric it
\* keeps with that start time, whatever the last-update time has become.
C19_StartTimeFixed ==
    [][/\ \A i \in 1..Len(metrics) :
            /\ i <= Len(metrics')
            /\ metrics'[i].data.start_time = metrics[i].data.start_time
       /\ \A t \in Threads :
            /\ (pc[t] = "register_new" /\ pc'[t] = "description_lock") =>
                  frame'[t].metric.start_time = clock'
            /\ (pc[t] = "description_find" /\ Steps(t)) =>
                  frame'[t].metric.start_time = frame[t].metric.start_time
            /\ (pc[t] = "metric_push" /\ Steps(t)) =>
                  metrics'[Len(metrics')].data.start_time
                     = frame[t].metric.start_time
            /\ Serializes(t) =>
                  \A k \in 1..Len(frame[t].keep) :
                     PointOf(DocMetrics(ret'[t].doc)[k]).startTimeUnixNano
                        = metrics[frame[t].keep[k]].data.start_time]_vars

\* a snapshot returned a counter created at time 1 and last updated at
\* time 2 with start time 1
C19_Witness ==
    \E t \in Threads :
       /\ pc[t] = "idle"
       /\ ret[t].tag = "json"
       /\ Len(metrics) = 1
       /\ metrics[1].data.start_time = 1
       /\ Len(DocMetrics(ret[t].doc)) = 1
       /\ "sum" \in DOMAIN DocMetrics(ret[t].doc)[1]
       /\ PointOf(DocMetrics(ret[t].doc)[1]).startTimeUnixNano = 1
       /\ PointOf(DocMetrics(ret[t].doc)[1]).timeUnixNano = 2

\* C20: a thread that has collected the entries of its snapshot and is
\* inside the call of json::metrics_to_json, serializing them, does not hold
\* the lock of the collection.
C20_SerializesUnlocked ==
    \A t \in Threads :
       pc[t] \in {"json_load", "metrics_to_json"} => metrics_lock.holder # t

\* the word a compare-and-swap of thread t is tried on
CasWord(t) ==
    IF pc[t] = "gauge_cas" THEN heap[frame[t].arc].value ELSE heap[frame[t].arc].sum

\* a compare-and-swap of thread t fails: the thread tries again
CasFails(t) ==
    /\ pc[t] \in {"gauge_cas", "record_cas"}
    /\ pc'[t] = pc[t]
    /\ frame'[t] # frame[t]

\* C21: a compare-and-swap of an increment, a decrement or a record fails
\* only when the word no longer holds the value the thread loaded, that is
\* when an update of another thread was stored in between, and the thread
\* then retries with the value it found; and under fair scheduling every
\* call in progress returns (the threads make finitely many calls).
C21_UpdatesReturn ==
    /\ [][\A t \in Threads :
            CasFails(t) =>
               /\ CasWord(t) # frame[t].curr
               /\ frame'[t].curr = CasWord(t)
               /\ heap' = heap]_vars
    /\ \A t \in Threads : (pc[t] # "idle") ~> (pc[t] = "idle")

\* C22: after a register call of one thread has panicked over the kind of
\* the metric it found, a call another thread makes (a register or a
\* to_json among them) gets the lock it asks for and does not panic there.
C22_FaultHaltsOnlyItsThread ==
    [][\A t, u \in Threads :
         (/\ u # t
          /\ ret[u] = Panic("Unexpected metric type")
          /\ pc[t] = "idle"
          /\ Steps(t)) => pc'[t] # "panicked"]_vars

\* C23: for a histogram with bounds, in whatever order its label listed them
\* (ascending, descending or repeated), each record has exactly one bucket
\* counter to increment, and once all records have returned the bucket
\* counters add up to the count.
C23_AnyOrderOneBucket ==
    heap[1].explicit_bounds # <<>> =>
       /\ \A t \in Threads :
             /\ pc[t] = "record_bucket" => Len(frame[t].todo) = 1
             /\ pc[t] = "record_count" => frame[t].todo = <<>>
       /\ AllIdle => SeqSum(heap[1].bucket_count) = heap[1].count

\* the record calls in progress
RecordsInProgress ==
    Cardinality({t \in Threads : pc[t] # "idle" /\ frame[t].op = "record"})

\* C24: in every state of a histogram with ascending bounds, the middle of
\* record calls included, the bucket counters add up to at least the count
\* and to at most the count plus the number of record calls in progress.
C24_BucketsLeadCount ==
    (heap[1].explicit_bounds # <<>> /\ StrictlyAscending(heap[1].explicit_bounds)) =>
        /\ SeqSum(heap[1].bucket_count) >= heap[1].count
        /\ SeqSum(heap[1].bucket_count) <= heap[1].count + RecordsInProgress

\* C25: with a clock that never goes backwards, no step of any interleaving
\* of updates takes the accumulator's last-update time below what it was,
\* and once all updates have returned it is the latest clock value any of
\* them read (the clock's last reading).
C25_TimeNeverDecreases ==
    [][/\ heap'[1].time >= heap[1].time
       /\ (AllIdle' /\ log' # EmptyBag) => heap'[1].time = clock']_vars

\* thread t is inside a call
Running(t) == pc[t] \notin {"idle", "panicked"}

\* C26: no thread ever holds the metrics lock and the descriptions lock at
\* the same time, and a lock that is held is held by a thread inside a call;
\* under fair scheduling every register, describe or to_json call in
\* progress comes to its end (it returns, or it panics on a fault): none
\* waits for a lock forever.
C26_NeverBothLocks ==
    /\ [][\A t \in Threads :
            /\ ~(metrics_lock'.holder = t /\ descriptions_lock'.holder = t)
            /\ (metrics_lock'.holder = t \/ descriptions_lock'.holder = t)
                  => Running(t)']_vars
    /\ \A t \in Threads : Running(t) ~> ~Running(t)

\* a register call waits for the metrics lock another thread's call holds
C26_Witness ==
    \E t, u \in Threads :
       /\ t # u
       /\ pc[t] = "metric_lock"
       /\ metrics_lock.holder = u
       /\ descriptions # <<>>

\* C27: whenever the filter of a windowed snapshot compares an entry, the
\* clock value it read is not before the last-update time it loads for the
\* entry, so the subtraction now - lastUpdate does not underflow: the call does
\* not fault, and an entry updated since the filter read the clock is kept.
C27_NoUnderflow ==
    [][\A t \in Threads :
         (pc[t] = "filter_time" /\ Steps(t)) =>
            LET i == frame[t].i
                time == heap[metrics[i].data.metric_type.arc].time IN
            /\ frame[t].now >= time
            /\ pc'[t] # "panicked"
            /\ time >= frame[t].now =>
                  \E k \in 1..Len(frame'[t].keep) : frame'[t].keep[k] = i]_vars

====
